---- MODULE Spec2Model ----
(***************************************************************************)
(* CompactSize codec of src/main.py: CompactSizeEncoder.encode and         *)
(* CompactSizeDecoder.decode, with the callers that feed them.             *)
(*                                                                         *)
(* A Python int is unbounded, and the codec's range reaches 2^64-1, so an  *)
(* int is held as a sign and a magnitude of base-65536 limbs, least        *)
(* significant limb first, with no most-significant zero limb (zero is the *)
(* empty magnitude).  bytes objects are sequences of 0..255.               *)
(***************************************************************************)
EXTENDS Integers, Sequences, FiniteSets

VARIABLES
    value,      \* the argument handed to encode (main.py:436 `value`)
    encoded,    \* what encode returned or raised (main.py:437 `encoded`)
    data,       \* the argument handed to decode (main.py:54 `data`)
    decoded,    \* what decode returned or raised (main.py:438)
    wire,       \* a byte stream holding consecutive CompactSize fields
    sent,       \* the values whose encodings were appended to wire, in order
    rcvd,       \* the values a consumer has decoded from wire, in order
    pos,        \* the consumer's offset into wire
    closed,     \* whether the producer has finished the stream
    trailer,    \* the bytes that follow the last field of the stream
    pc,         \* where the caller stands
    tx,         \* a TransactionData object: version, inputs, outputs, lock_time, metadata
    frame,      \* the locals of a running summarize_outputs call
    ret,        \* the last method call: its name, arguments and return value
    calls,      \* how many add_input and add_output calls tx has served
    utxos,      \* UTXOSet.utxos
    stdout,     \* what print has written, in order
    gen,        \* the frame of a generate_block_headers generator
    headers,    \* the headers a consumer has taken from gen, in order
    threads,    \* concurrent callers of encode and decode: call, position, locals
    heap        \* the bytes objects the concurrent callers hand to decode

codecVars == <<value, encoded, data, decoded, wire, sent, rcvd, pos, closed, trailer>>

objVars == <<tx, frame, ret, calls, utxos, stdout, gen, headers, threads, heap>>

vars == <<value, encoded, data, decoded, wire, sent, rcvd, pos, closed, trailer, pc,
          tx, frame, ret, calls, utxos, stdout, gen, headers, threads, heap>>

(***************************************************************************)
(* Bounds of the model.                                                    *)
(***************************************************************************)
MaxLimbs == 5       \* ints up to 2^80 - 1: one limb above the u64 range
MaxBufLen == 10     \* decode buffers of 0..10 bytes: one byte above the 9-byte form
MaxStream == 2      \* fields per stream
MaxTail == 2        \* bytes following the last field of a stream
MaxInputs == 2      \* inputs added to a transaction
MaxOutputs == 3     \* outputs added to a transaction
MaxStdout == 4      \* lines already printed when a further method call is made

(***************************************************************************)
(* Python int: comparison, int.to_bytes, int.from_bytes.                   *)
(***************************************************************************)
LimbBase == 256 * 256

PyInt(neg, mag) == [type |-> "int", neg |-> neg, mag |-> mag]

PyOther(t) == [type |-> t, neg |-> FALSE, mag |-> <<>>]

\* isinstance(value, int)
IsInstanceInt(v) == v.type = "int"

\* An int built from a machine-sized natural (a byte read out of a bytes object).
RECURSIVE NatMag(_)
NatMag(n) == IF n = 0 THEN <<>> ELSE <<n % LimbBase>> \o NatMag(n \div LimbBase)

IntOfNat(n) == PyInt(FALSE, NatMag(n))

\* Comparison of two magnitudes: -1, 0 or 1.
RECURSIVE CmpMag(_, _)
CmpMag(a, b) ==
    IF Len(a) # Len(b) THEN (IF Len(a) < Len(b) THEN -1 ELSE 1)
    ELSE IF Len(a) = 0 THEN 0
    ELSE IF a[Len(a)] # b[Len(b)] THEN (IF a[Len(a)] < b[Len(b)] THEN -1 ELSE 1)
    ELSE CmpMag(SubSeq(a, 1, Len(a) - 1), SubSeq(b, 1, Len(b) - 1))

\* x < y and x <= y on ints
IntLt(x, y) ==
    IF x.neg # y.neg THEN x.neg
    ELSE IF x.neg THEN CmpMag(y.mag, x.mag) < 0
    ELSE CmpMag(x.mag, y.mag) < 0

IntLe(x, y) == ~IntLt(y, x)

\* The literals the codec compares against.
Zero == PyInt(FALSE, <<>>)
xFD == PyInt(FALSE, <<253>>)
xFFFF == PyInt(FALSE, <<65535>>)
xFFFFFFFF == PyInt(FALSE, <<65535, 65535>>)
U64Max == PyInt(FALSE, <<65535, 65535, 65535, 65535>>)

\* mag with its most significant zero limbs dropped
RECURSIVE Normalize(_)
Normalize(mag) ==
    IF Len(mag) > 0 /\ mag[Len(mag)] = 0
    THEN Normalize(SubSeq(mag, 1, Len(mag) - 1))
    ELSE mag

\* mag div 256 and mag mod 256
Shr8(mag) ==
    Normalize([i \in 1..Len(mag) |->
        (mag[i] \div 256) + (IF i < Len(mag) THEN (mag[i + 1] % 256) * 256 ELSE 0)])

Low8(mag) == IF Len(mag) = 0 THEN 0 ELSE mag[1] % 256

\* The n low bytes of mag, least significant first, and what is left above them.
RECURSIVE LowBytes(_, _)
LowBytes(mag, n) ==
    IF n = 0 THEN <<>> ELSE <<Low8(mag)>> \o LowBytes(Shr8(mag), n - 1)

RECURSIVE Shr8N(_, _)
Shr8N(mag, n) == IF n = 0 THEN mag ELSE Shr8N(Shr8(mag), n - 1)

RECURSIVE Reverse(_)
Reverse(bs) == IF Len(bs) = 0 THEN <<>> ELSE Append(Reverse(Tail(bs)), Head(bs))

\* Mutant of ToBytesLittle: byteorder='big'.
ToBytesBig(v, n) ==
    IF v.neg \/ Shr8N(v.mag, n) # <<>>
    THEN [ok |-> FALSE, exc |-> "OverflowError"]
    ELSE [ok |-> TRUE, bytes |-> Reverse(LowBytes(v.mag, n))]

\* value.to_bytes(n, byteorder='little'): OverflowError when value is negative
\* or needs more than n bytes.
ToBytesLittle(v, n) ==
    IF v.neg \/ Shr8N(v.mag, n) # <<>>
    THEN [ok |-> FALSE, exc |-> "OverflowError"]
    ELSE [ok |-> TRUE, bytes |-> LowBytes(v.mag, n)]

\* mag * 256 + carry
RECURSIVE MulAdd256(_, _)
MulAdd256(mag, carry) ==
    IF Len(mag) = 0 THEN (IF carry = 0 THEN <<>> ELSE <<carry>>)
    ELSE LET t == Head(mag) * 256 + carry
         IN  <<t % LimbBase>> \o MulAdd256(Tail(mag), t \div LimbBase)

\* int.from_bytes(bs, byteorder='little')
RECURSIVE FromBytesMag(_)
FromBytesMag(bs) ==
    IF Len(bs) = 0 THEN <<>> ELSE MulAdd256(FromBytesMag(Tail(bs)), Head(bs))

\* Mutant of FromBytesLittle: byteorder='big'.
FromBytesBig(bs) == PyInt(FALSE, FromBytesMag(Reverse(bs)))

FromBytesLittle(bs) == PyInt(FALSE, FromBytesMag(bs))

\* data[lo:hi] of a bytes object: a slice is clamped to the object's length.
Slice(bs, lo, hi) ==
    SubSeq(bs, lo + 1, IF hi < Len(bs) THEN hi ELSE Len(bs))

(***************************************************************************)
(* The outcome of a call: a return value or a raised exception.            *)
(***************************************************************************)
Raise(exc, msg) == [ok |-> FALSE, exc |-> exc, msg |-> msg]

ReturnBytes(bs) == [ok |-> TRUE, bytes |-> bs]

\* Mutant of PrefixedBytes: the sentinel byte is left out.
PrefixedBytesNoSentinel(prefix, v, n) ==
    LET body == ToBytesLittle(v, n)
    IN  IF body.ok THEN ReturnBytes(body.bytes)
        ELSE Raise(body.exc, "int too big to convert")

\* bytes([prefix]) + value.to_bytes(n, byteorder='little')
PrefixedBytes(prefix, v, n) ==
    LET body == ToBytesLittle(v, n)
    IN  IF body.ok THEN ReturnBytes(prefix \o body.bytes)
        ELSE Raise(body.exc, "int too big to convert")

(***************************************************************************)
(* CompactSizeEncoder.encode                                               *)
(***************************************************************************)
\* Mutant of Encode: the first pivot is off by one (value <= 0xFD).
EncodePivotOffByOne(v) ==
    IF ~IsInstanceInt(v) \/ IntLt(v, Zero)
    THEN Raise("ValueError", "Value must be a non-negative integer")
    ELSE IF IntLt(U64Max, v)
    THEN Raise("ValueError", "Value exceeds u64 maximum")
    ELSE IF IntLe(v, xFD) THEN PrefixedBytes(<<>>, v, 1)
    ELSE IF IntLe(v, xFFFF) THEN PrefixedBytes(<<253>>, v, 2)
    ELSE IF IntLe(v, xFFFFFFFF) THEN PrefixedBytes(<<254>>, v, 4)
    ELSE PrefixedBytes(<<255>>, v, 8)

\* Mutant of Encode: the u64 upper bound is not checked.
EncodeNoUpperCheck(v) ==
    IF ~IsInstanceInt(v) \/ IntLt(v, Zero)
    THEN Raise("ValueError", "Value must be a non-negative integer")
    ELSE IF IntLt(v, xFD) THEN PrefixedBytes(<<>>, v, 1)
    ELSE IF IntLe(v, xFFFF) THEN PrefixedBytes(<<253>>, v, 2)
    ELSE IF IntLe(v, xFFFFFFFF) THEN PrefixedBytes(<<254>>, v, 4)
    ELSE PrefixedBytes(<<255>>, v, 8)

Encode(v) ==
    IF ~IsInstanceInt(v) \/ IntLt(v, Zero)
    THEN Raise("ValueError", "Value must be a non-negative integer")
    ELSE IF IntLt(U64Max, v)
    THEN Raise("ValueError", "Value exceeds u64 maximum")
    ELSE IF IntLt(v, xFD) THEN PrefixedBytes(<<>>, v, 1)
    ELSE IF IntLe(v, xFFFF) THEN PrefixedBytes(<<253>>, v, 2)
    ELSE IF IntLe(v, xFFFFFFFF) THEN PrefixedBytes(<<254>>, v, 4)
    ELSE PrefixedBytes(<<255>>, v, 8)

(***************************************************************************)
(* CompactSizeDecoder.decode.  Beside the outcome, `reads` holds the       *)
(* 0-based indices of data the call asked for: data[0], and the indices    *)
(* lo..hi-1 of each slice data[lo:hi].                                     *)
(***************************************************************************)
ReturnPair(v, n, reads) == [ok |-> TRUE, value |-> v, consumed |-> n, reads |-> reads]

RaiseAfter(msg, reads) == [ok |-> FALSE, exc |-> "ValueError", msg |-> msg, reads |-> reads]

\* Mutant of DecodeWide: the prefix byte is not counted in consumed.
DecodeWidePayloadOnly(bs, total) ==
    IF Len(bs) < total
    THEN RaiseAfter("Data too short", {0})
    ELSE ReturnPair(FromBytesLittle(Slice(bs, 1, total)), total - 1, 0..(total - 1))

\* Mutant of DecodeWide: the length check is off by one (len(data) < total - 1).
DecodeWideShortCheck(bs, total) ==
    IF Len(bs) < total - 1
    THEN RaiseAfter("Data too short", {0})
    ELSE ReturnPair(FromBytesLittle(Slice(bs, 1, total)), total, 0..(total - 1))

\* Mutant of DecodeWide: the message names the required length.
DecodeWideNamesLength(bs, total) ==
    IF Len(bs) < total
    THEN RaiseAfter(IF total = 3 THEN "Data too short: need 3"
                    ELSE IF total = 5 THEN "Data too short: need 5"
                    ELSE "Data too short: need 9", {0})
    ELSE ReturnPair(FromBytesLittle(Slice(bs, 1, total)), total, 0..(total - 1))

\* Mutant of DecodeWide: a payload that a shorter form could hold is rejected.
DecodeWideCanonicalOnly(bs, total) ==
    IF Len(bs) < total
    THEN RaiseAfter("Data too short", {0})
    ELSE LET v == FromBytesLittle(Slice(bs, 1, total))
         IN  IF 2 * Len(v.mag) <= total - 3 \/ IntLt(v, xFD)
             THEN RaiseAfter("Non-canonical CompactSize", 0..(total - 1))
             ELSE ReturnPair(v, total, 0..(total - 1))

\* Mutant of DecodeWide: the slice has no upper end (data[1:]).
DecodeWideOpenSlice(bs, total) ==
    IF Len(bs) < total
    THEN RaiseAfter("Data too short", {0})
    ELSE ReturnPair(FromBytesLittle(Slice(bs, 1, Len(bs))), total, 0..(Len(bs) - 1))

\* One prefixed branch of decode: the length check, then the slice.
DecodeWide(bs, total) ==
    IF Len(bs) < total
    THEN RaiseAfter("Data too short", {0})
    ELSE ReturnPair(FromBytesLittle(Slice(bs, 1, total)), total, 0..(total - 1))

\* Mutant of Decode: the one-byte case stops one short (first_byte < 0xFC).
DecodeGapBelowSentinels(bs) ==
    IF Len(bs) = 0
    THEN RaiseAfter("Data is too short to decode CompactSize.", {})
    ELSE LET first_byte == IntOfNat(bs[1])
         IN  IF IntLt(first_byte, PyInt(FALSE, <<252>>)) THEN ReturnPair(first_byte, 1, {0})
             ELSE IF first_byte = xFD THEN DecodeWide(bs, 3)
             ELSE IF first_byte = PyInt(FALSE, <<254>>) THEN DecodeWide(bs, 5)
             ELSE IF first_byte = PyInt(FALSE, <<255>>) THEN DecodeWide(bs, 9)
             ELSE RaiseAfter("Invalid CompactSize prefix", {0})

Decode(bs) ==
    IF Len(bs) = 0
    THEN RaiseAfter("Data is too short to decode CompactSize.", {})
    ELSE LET first_byte == IntOfNat(bs[1])
         IN  IF IntLt(first_byte, xFD) THEN ReturnPair(first_byte, 1, {0})
             ELSE IF first_byte = xFD THEN DecodeWide(bs, 3)
             ELSE IF first_byte = PyInt(FALSE, <<254>>) THEN DecodeWide(bs, 5)
             ELSE IF first_byte = PyInt(FALSE, <<255>>) THEN DecodeWide(bs, 9)
             ELSE RaiseAfter("Invalid CompactSize prefix", {0})

(***************************************************************************)
(* The inputs the model draws from.                                        *)
(***************************************************************************)
\* The least significant limb straddles every pivot of the low forms; the
\* limbs above it are empty, minimal or full.
LowLimbs == {0, 1, 252, 253, 254, 255, 256, 65535}
HighLimbs == {0, 1, 65535}

Magnitudes ==
    {Normalize([i \in 1..MaxLimbs |-> IF i = 1 THEN lo ELSE hi[i]]) :
        lo \in LowLimbs, hi \in [2..MaxLimbs -> HighLimbs]}

NegativeInts == {PyInt(TRUE, m) : m \in {<<1>>, <<253>>, <<0, 0, 0, 0, 1>>}}

NonInts == {PyOther("str"), PyOther("float"), PyOther("NoneType")}

Values == {PyInt(FALSE, m) : m \in Magnitudes} \cup NegativeInts \cup NonInts

\* Buffers of every length up to MaxBufLen: any sampled first byte, two free
\* payload bytes, and one fill byte for the rest.
FirstBytes == {0, 1, 252, 253, 254, 255}
PayloadBytes == {0, 1, 253, 255}

Buffers ==
    {[i \in 1..n |-> IF i = 1 THEN b0 ELSE IF i = 2 THEN a ELSE IF i = 3 THEN b ELSE c] :
        n \in 0..MaxBufLen, b0 \in FirstBytes,
        a \in PayloadBytes, b \in PayloadBytes, c \in PayloadBytes}

\* What a variable holds before the call that sets it.
Unset == Raise("unset", "")

StreamIdle ==
    /\ wire = <<>>
    /\ sent = <<>>
    /\ rcvd = <<>>
    /\ pos = 0
    /\ closed = FALSE
    /\ trailer = <<>>

\* TransactionData(): the defaults of __init__.
NewTransaction ==
    [version |-> 1, inputs |-> <<>>, outputs |-> <<>>, lock_time |-> 0, metadata |-> <<>>]

NoFrame == [min_value |-> 0, total_satoshi |-> 0, valid_outputs_count |-> 0, index |-> 0]

NoCall == [op |-> "none", args |-> <<>>, val |-> <<>>]

NoGenerator ==
    [state |-> "none", start_nonce |-> 0, max_attempts |-> 0, nonce |-> 0, attempts |-> 0]

\* The objects as their constructors leave them, with nothing called yet.
ObjectsIdle ==
    /\ tx = NewTransaction
    /\ frame = NoFrame
    /\ ret = NoCall
    /\ calls = [add_input |-> 0, add_output |-> 0]
    /\ utxos = {}
    /\ stdout = <<>>
    /\ gen = NoGenerator
    /\ headers = <<>>
    /\ threads = <<>>
    /\ heap = <<>>

(***************************************************************************)
(* The codec loop of __main__: encode a value, decode what came out; a     *)
(* ValueError of either call ends the iteration in the except clause.      *)
(***************************************************************************)
Init ==
    /\ value \in Values
    /\ encoded = Unset
    /\ data = <<>>
    /\ decoded = Unset
    /\ StreamIdle
    /\ ObjectsIdle
    /\ pc = "encode"

\* encoded = encoder.encode(value)
EncodeCall ==
    /\ pc = "encode"
    /\ encoded' = Encode(value)
    /\ pc' = IF encoded'.ok THEN "decode_encoded" ELSE "except"
    /\ UNCHANGED <<value, data, decoded, wire, sent, rcvd, pos, closed, trailer>>
    /\ UNCHANGED objVars

\* decoded_value, bytes_consumed = decoder.decode(encoded)
DecodeEncoded ==
    /\ pc = "decode_encoded"
    /\ data' = encoded.bytes
    /\ decoded' = Decode(data')
    /\ pc' = IF decoded'.ok THEN "print" ELSE "except"
    /\ UNCHANGED <<value, encoded, wire, sent, rcvd, pos, closed, trailer>>
    /\ UNCHANGED objVars

Next == EncodeCall \/ DecodeEncoded

Spec == Init /\ [][Next]_vars

(***************************************************************************)
(* decode called on an arbitrary buffer.                                   *)
(***************************************************************************)
InitDecode ==
    /\ value = PyOther("NoneType")
    /\ encoded = Unset
    /\ data \in Buffers
    /\ decoded = Unset
    /\ StreamIdle
    /\ ObjectsIdle
    /\ pc = "decode"

\* self.decoder.decode(data)
DecodeCall ==
    /\ pc = "decode"
    /\ decoded' = Decode(data)
    /\ pc' = IF decoded'.ok THEN "returned" ELSE "raised"
    /\ UNCHANGED <<value, encoded, data, wire, sent, rcvd, pos, closed, trailer>>
    /\ UNCHANGED objVars

NextDecode == DecodeCall

SpecDecode == InitDecode /\ [][NextDecode]_vars

(***************************************************************************)
(* A stream of CompactSize fields: a producer appends encode(v) for one    *)
(* value after another and ends the stream with arbitrary trailing bytes;  *)
(* a consumer decodes at its offset and advances by the consumed count.    *)
(***************************************************************************)
StreamValues ==
    {PyInt(FALSE, m) : m \in {<<>>, <<1>>, <<252>>, <<253>>, <<254>>, <<255>>, <<65535>>,
                              <<0, 1>>, <<65535, 65535>>, <<0, 0, 1>>,
                              <<65535, 65535, 65535, 65535>>}}
        \cup {PyInt(TRUE, <<1>>), PyInt(FALSE, <<0, 0, 0, 0, 1>>)}

TailBytes == {0, 253, 255}

Tails == UNION {[1..n -> TailBytes] : n \in 0..MaxTail}

InitStream ==
    /\ value = PyOther("NoneType")
    /\ encoded = Unset
    /\ data = <<>>
    /\ decoded = Unset
    /\ StreamIdle
    /\ ObjectsIdle
    /\ pc = "stream"

\* wire += encoder.encode(v); an encode that raises appends nothing.
Send(v) ==
    /\ pc = "stream"
    /\ ~closed
    /\ Len(sent) < MaxStream
    /\ Encode(v).ok
    /\ wire' = wire \o Encode(v).bytes
    /\ sent' = Append(sent, v)
    /\ UNCHANGED <<value, encoded, data, decoded, rcvd, pos, closed, trailer, pc>>
    /\ UNCHANGED objVars

\* The bytes that follow the last field.
Close(t) ==
    /\ pc = "stream"
    /\ ~closed
    /\ wire' = wire \o t
    /\ trailer' = t
    /\ closed' = TRUE
    /\ UNCHANGED <<value, encoded, data, decoded, sent, rcvd, pos, pc>>
    /\ UNCHANGED objVars

\* v, n = decoder.decode(wire[pos:]); pos += n
Recv ==
    /\ pc = "stream"
    /\ Len(rcvd) < Len(sent)
    /\ LET r == Decode(SubSeq(wire, pos + 1, Len(wire)))
       IN  IF r.ok
           THEN /\ rcvd' = Append(rcvd, r.value)
                /\ pos' = pos + r.consumed
                /\ pc' = pc
           ELSE /\ pc' = "stream_error"
                /\ UNCHANGED <<rcvd, pos>>
    /\ UNCHANGED <<value, encoded, data, decoded, wire, sent, closed, trailer>>
    /\ UNCHANGED objVars

NextStream ==
    \/ \E v \in StreamValues : Send(v)
    \/ \E t \in Tails : Close(t)
    \/ Recv

SpecStream == InitStream /\ [][NextStream]_vars

(***************************************************************************)
(* The format as the specification states it, written directly on the      *)
(* limbs and bytes, without the codec's own arithmetic.                    *)
(***************************************************************************)
\* v is an integer of [0, 2^64 - 1]
InRange(v) == v.type = "int" /\ ~v.neg /\ Len(v.mag) <= 4

\* The forms by total length, and whether the payload of a form can hold mag:
\* one byte below the sentinels, or 2, 4 or 8 payload bytes.
FormLengths == {1, 3, 5, 9}

FormHolds(len, mag) ==
    IF len = 1 THEN Len(mag) = 0 \/ (Len(mag) = 1 /\ mag[1] < 253)
    ELSE 2 * Len(mag) <= len - 1

MinimalLength(mag) ==
    CHOOSE len \in FormLengths :
        /\ FormHolds(len, mag)
        /\ \A other \in FormLengths : FormHolds(other, mag) => len <= other

\* (mag div 256^i) mod 256
ByteAt(mag, i) ==
    LET limb == IF (i \div 2) + 1 <= Len(mag) THEN mag[(i \div 2) + 1] ELSE 0
    IN  IF i % 2 = 0 THEN limb % 256 ELSE limb \div 256

SentinelOf(len) == IF len = 3 THEN 253 ELSE IF len = 5 THEN 254 ELSE 255

ExpectedWire(mag) ==
    LET len == MinimalLength(mag)
    IN  IF len = 1 THEN <<ByteAt(mag, 0)>>
        ELSE <<SentinelOf(len)>> \o [i \in 1..(len - 1) |-> ByteAt(mag, i - 1)]

IsProperPrefix(s, t) == Len(s) < Len(t) /\ SubSeq(t, 1, Len(s)) = s

EncodeReturned == pc \in {"decode_encoded", "print"} \/ (pc = "except" /\ encoded.ok)
EncodeRaised == pc = "except" /\ ~encoded.ok
EncodeDone == EncodeReturned \/ EncodeRaised

(***************************************************************************)
(* C1  Round-trip: for every integer v of [0, 2^64-1], encode(v) succeeds, *)
(* decode of its result succeeds, and decode returns exactly               *)
(* (v, len(encode(v))).                                                    *)
(***************************************************************************)
C1_RoundTrip ==
    InRange(value) =>
        /\ pc # "except"
        /\ pc = "print" =>
            /\ decoded.ok
            /\ decoded.value = value
            /\ decoded.consumed = Len(encoded.bytes)

\* The largest value, through the 9-byte form, has been encoded and decoded.
C1_Witness ==
    /\ pc = "print"
    /\ value = U64Max
    /\ decoded.value = U64Max
    /\ decoded.consumed = 9

(***************************************************************************)
(* C2  Minimality: for every valid v, encode(v) has the shortest length of *)
(* the forms (1, 3, 5, 9 bytes) whose payload can hold v: 1 iff v < 253,   *)
(* 3 iff 253 <= v <= 65535, 5 iff 65536 <= v <= 4294967295, 9 iff          *)
(* 4294967296 <= v <= 2^64-1.                                              *)
(***************************************************************************)
C2_Minimality ==
    (EncodeDone /\ InRange(value)) =>
        /\ encoded.ok
        /\ Len(encoded.bytes) = MinimalLength(value.mag)
        /\ Len(encoded.bytes) = 1 <=> FormHolds(1, value.mag)
        /\ Len(encoded.bytes) = 3 <=> (~FormHolds(1, value.mag) /\ Len(value.mag) <= 1)
        /\ Len(encoded.bytes) = 5 <=> Len(value.mag) = 2
        /\ Len(encoded.bytes) = 9 <=> Len(value.mag) \in {3, 4}

\* A value on the upper side of a pivot has been encoded in the longer form.
C2_Witness ==
    /\ EncodeReturned
    /\ \/ value.mag = <<253>> /\ Len(encoded.bytes) = 3
       \/ value.mag = <<0, 1>> /\ Len(encoded.bytes) = 5
       \/ value.mag = <<0, 0, 1>> /\ Len(encoded.bytes) = 9

(***************************************************************************)
(* C3  Exact wire bytes: for every valid v, encode(v) is the single byte v *)
(* when v < 253, and otherwise the sentinel (0xFD up to 0xFFFF, 0xFE up to *)
(* 0xFFFFFFFF, 0xFF above) followed by v in 2, 4 or 8 bytes, least         *)
(* significant first: payload byte i is (v div 256^i) mod 256.             *)
(***************************************************************************)
C3_WireBytes ==
    (EncodeDone /\ InRange(value)) =>
        /\ encoded.ok
        /\ encoded.bytes = ExpectedWire(value.mag)

\* 65536 + 253 has been encoded: its four payload bytes differ in order.
C3_Witness ==
    /\ EncodeReturned
    /\ value.mag = <<253, 1>>
    /\ encoded.bytes = <<254, 253, 0, 1, 0>>

(***************************************************************************)
(* C4  encode raises ValueError, and returns no bytes, for every input     *)
(* that is negative, above 18446744073709551615 or not an integer, and     *)
(* for no integer of [0, 2^64-1].                                          *)
(***************************************************************************)
C4_InvalidValue ==
    EncodeDone =>
        /\ encoded.ok <=> InRange(value)
        /\ ~encoded.ok =>
            /\ encoded.exc = "ValueError"
            /\ "bytes" \notin DOMAIN encoded
            /\ data = <<>>

\* encode(2^64) has raised.
C4_Witness ==
    /\ EncodeRaised
    /\ value = PyInt(FALSE, <<0, 0, 0, 0, 1>>)
    /\ encoded.exc = "ValueError"

(***************************************************************************)
(* C10  Prefix-free and unique: for two distinct valid values u # v,       *)
(* encode(u) # encode(v) and neither encoding is a proper prefix of the    *)
(* other.                                                                  *)
(***************************************************************************)
C10_PrefixFree ==
    EncodeReturned =>
        \A u \in Values \ {value} :
            LET other == Encode(u)
            IN  other.ok =>
                    /\ other.bytes # encoded.bytes
                    /\ ~IsProperPrefix(other.bytes, encoded.bytes)
                    /\ ~IsProperPrefix(encoded.bytes, other.bytes)

\* 253 has been encoded; its first byte alone is what a one-byte form would be.
C10_Witness ==
    /\ EncodeReturned
    /\ value = xFD
    /\ encoded.bytes = <<253, 253, 0>>
    /\ \E u \in Values : u # value /\ Encode(u).ok /\ Encode(u).bytes[1] = 253

(***************************************************************************)
(* The decoder's contract as the specification states it.                  *)
(***************************************************************************)
\* The payload width the first byte declares.
WidthOf(first) ==
    IF first < 253 THEN 0 ELSE IF first = 253 THEN 2 ELSE IF first = 254 THEN 4 ELSE 8

LongEnough(bs) == Len(bs) >= 1 /\ Len(bs) >= 1 + WidthOf(bs[1])

\* The little-endian unsigned value of an even number of bytes: byte pairs
\* are the limbs.
LittleEndianValue(bs) ==
    PyInt(FALSE, Normalize([k \in 1..(Len(bs) \div 2) |-> bs[2 * k - 1] + 256 * bs[2 * k]]))

ExpectedValue(bs) ==
    IF WidthOf(bs[1]) = 0 THEN PyInt(FALSE, IF bs[1] = 0 THEN <<>> ELSE <<bs[1]>>)
    ELSE LittleEndianValue(SubSeq(bs, 2, 1 + WidthOf(bs[1])))

DecodeDone == pc \in {"returned", "raised"}

\* The payload of a prefixed buffer would fit a shorter form.
NonMinimal(bs) ==
    /\ LongEnough(bs)
    /\ WidthOf(bs[1]) > 0
    /\ MinimalLength(ExpectedValue(bs).mag) < 1 + WidthOf(bs[1])

(***************************************************************************)
(* C5  Decode result: for every buffer b long enough for its first byte,   *)
(* decode(b) returns (b[0], 1) when b[0] < 0xFD and otherwise the          *)
(* little-endian unsigned value of bytes 1..w with consumed 1+w, w = 2,    *)
(* 4, 8 for 0xFD, 0xFE, 0xFF; consumed is one of 1, 3, 5, 9 and never      *)
(* exceeds len(b).                                                         *)
(***************************************************************************)
C5_DecodeResult ==
    /\ (DecodeDone /\ LongEnough(data)) =>
        /\ pc = "returned"
        /\ decoded.value = ExpectedValue(data)
        /\ decoded.consumed = 1 + WidthOf(data[1])
    /\ pc = "returned" =>
        /\ decoded.consumed \in FormLengths
        /\ decoded.consumed <= Len(data)

\* A 0xFF buffer with distinct payload bytes and a byte to spare has decoded.
C5_Witness ==
    /\ pc = "returned"
    /\ data = <<255, 1, 253, 0, 0, 0, 0, 0, 0, 0>>
    /\ decoded.value = PyInt(FALSE, <<64769>>)
    /\ decoded.consumed = 9

(***************************************************************************)
(* C6  Truncation: decode raises ValueError, and returns no (value,        *)
(* consumed) pair, exactly when the buffer is empty or its first byte is   *)
(* 0xFD and len < 3, 0xFE and len < 5, or 0xFF and len < 9; the length     *)
(* check precedes the payload read, so no index >= len(buffer) is asked    *)
(* for.                                                                    *)
(***************************************************************************)
C6_Truncation ==
    DecodeDone =>
        /\ pc = "raised" <=> ~LongEnough(data)
        /\ pc = "raised" =>
            /\ ~decoded.ok
            /\ decoded.exc = "ValueError"
            /\ decoded.msg \in {"Data too short", "Data is too short to decode CompactSize."}
            /\ {"value", "consumed"} \cap DOMAIN decoded = {}
        /\ \A i \in decoded.reads : i < Len(data)

\* A 0xFF buffer one byte short of its payload has been refused.
C6_Witness ==
    /\ pc = "raised"
    /\ Len(data) = 8
    /\ data[1] = 255
    /\ decoded.reads = {0}

(***************************************************************************)
(* C7 as stated: on a non-empty buffer whose prefixed payload is too       *)
(* short, the error identifies the required and the available length: two  *)
(* such failures that differ in either length are told apart by the error. *)
(***************************************************************************)
C7_ErrorIdentifiesLengths ==
    (pc = "raised" /\ Len(data) > 0) =>
        \A b \in Buffers :
            LET other == Decode(b)
            IN  (Len(b) > 0 /\ ~other.ok /\ other.exc = decoded.exc /\ other.msg = decoded.msg)
                    => (WidthOf(b[1]) = WidthOf(data[1]) /\ Len(b) = Len(data))

(***************************************************************************)
(* C7 as amended: on a non-empty buffer whose prefixed payload is too      *)
(* short, decode raises ValueError with the fixed message "Data too        *)
(* short", the same for every prefix and every buffer length.              *)
(***************************************************************************)
C7_FixedMessage ==
    (pc = "raised" /\ Len(data) > 0) =>
        /\ decoded.exc = "ValueError"
        /\ decoded.msg = "Data too short"

\* A 0xFE buffer with three of its four payload bytes has been refused.
C7_Witness ==
    /\ pc = "raised"
    /\ Len(data) = 4
    /\ data[1] = 254
    /\ decoded.msg = "Data too short"

(***************************************************************************)
(* C8  Decoder permissiveness: decode makes no canonicality check; every   *)
(* long enough buffer that starts with 0xFD, 0xFE or 0xFF decodes, also    *)
(* when its payload would fit a shorter form (0xFD 0x00 0x00 gives (0, 3)),*)
(* and then encode of the decoded value differs from the bytes consumed.   *)
(***************************************************************************)
C8_Permissive ==
    (DecodeDone /\ LongEnough(data) /\ WidthOf(data[1]) > 0) =>
        /\ decoded.ok
        /\ NonMinimal(data) =>
            /\ decoded.value = ExpectedValue(data)
            /\ Encode(decoded.value).ok
            /\ Encode(decoded.value).bytes # SubSeq(data, 1, decoded.consumed)
        /\ data = <<253, 0, 0>> => (decoded.value = Zero /\ decoded.consumed = 3)

\* 0xFD 0x00 0x00 has decoded to (0, 3), which encode writes as one byte.
C8_Witness ==
    /\ pc = "returned"
    /\ data = <<253, 0, 0>>
    /\ decoded.value = Zero
    /\ decoded.consumed = 3
    /\ Encode(decoded.value).bytes = <<0>>

\* The total length of the canonical forms of a sequence of values.
RECURSIVE FieldsLength(_)
FieldsLength(vs) ==
    IF Len(vs) = 0 THEN 0 ELSE MinimalLength(Head(vs).mag) + FieldsLength(Tail(vs))

(***************************************************************************)
(* C9  Stream framing: decode(encode(v) ++ t) = (v, len(encode(v))) for    *)
(* every valid v and every t; so decoding encode(v1) ++ ... ++ encode(vn)  *)
(* repeatedly, advancing by consumed, recovers v1..vn in order and ends    *)
(* exactly at the end of the fields.                                       *)
(***************************************************************************)
C9_StreamFraming ==
    /\ pc # "stream_error"
    /\ Len(rcvd) <= Len(sent)
    /\ rcvd = SubSeq(sent, 1, Len(rcvd))
    /\ pos = FieldsLength(rcvd)
    /\ Len(rcvd) = Len(sent) => pos = Len(wire) - Len(trailer)
    /\ Len(sent) > 0 =>
        LET r == Decode(wire)
        IN  /\ r.ok
            /\ r.value = sent[1]
            /\ r.consumed = Len(Encode(sent[1]).bytes)

\* Two fields, the first in the 3-byte form, were recovered in order before
\* trailing bytes that look like a prefix.
C9_Witness ==
    /\ closed
    /\ Len(sent) = 2
    /\ sent[1] = xFFFF
    /\ rcvd = sent
    /\ Len(trailer) > 0
    /\ trailer[1] = 255
    /\ pos = Len(wire) - Len(trailer)

(***************************************************************************)
(* decode called on buffers of every length whose first byte ranges over   *)
(* all 256 byte values.                                                    *)
(***************************************************************************)
PrefixBuffers ==
    {[i \in 1..n |-> IF i = 1 THEN b0 ELSE c] :
        n \in 0..MaxBufLen, b0 \in 0..255, c \in {0, 255}}

InitPrefix ==
    /\ value = PyOther("NoneType")
    /\ encoded = Unset
    /\ data \in PrefixBuffers
    /\ decoded = Unset
    /\ StreamIdle
    /\ ObjectsIdle
    /\ pc = "decode"

NextPrefix == DecodeCall

SpecPrefix == InitPrefix /\ [][NextPrefix]_vars

(***************************************************************************)
(* C19  The cases first byte < 0xFD, == 0xFD, == 0xFE, == 0xFF cover all   *)
(* 256 byte values, so the "Invalid CompactSize prefix" branch of decode   *)
(* is never taken: every call returns a (value, consumed) pair or raises   *)
(* a too-short error.                                                      *)
(***************************************************************************)
C19_NoInvalidPrefix ==
    DecodeDone =>
        \/ /\ pc = "returned"
           /\ decoded.ok
           /\ {"value", "consumed"} \subseteq DOMAIN decoded
        \/ /\ pc = "raised"
           /\ ~decoded.ok
           /\ decoded.msg # "Invalid CompactSize prefix"
           /\ decoded.msg \in {"Data too short", "Data is too short to decode CompactSize."}

\* The largest one-byte value, next to the first sentinel, has decoded.
C19_Witness ==
    /\ pc = "returned"
    /\ data[1] = 252
    /\ decoded.value = PyInt(FALSE, <<252>>)
    /\ decoded.consumed = 1

(***************************************************************************)
(* TransactionData.  A small int (a satoshi amount, an index, a header     *)
(* field) is a machine integer tagged with its type, so that               *)
(* isinstance(value, int) has something to test.                           *)
(***************************************************************************)
SmallInt(n) == [type |-> "int", n |-> n]

NotAnInt(t) == [type |-> t, n |-> 0]

\* print(...): one line, as the text that names it and the values formatted in.
Line(text, args) == [text |-> text, args |-> args]

Called(op, args, val) == [op |-> op, args |-> args, val |-> val]

None == <<>>

\* self.inputs.append({...})
WithInput(t, tx_id, vout_index, script_sig, sequence) ==
    [t EXCEPT !.inputs = Append(@, [prev_txid |-> tx_id, prev_vout |-> vout_index,
                                     script_sig |-> script_sig, sequence |-> sequence])]

\* self.outputs.append((value_satoshi, script_pubkey))
WithOutput(t, value_satoshi, script_pubkey) ==
    [t EXCEPT !.outputs = Append(@, <<value_satoshi, script_pubkey>>)]

\* self.metadata.update(new_data)
DictUpdate(old, new) ==
    [k \in DOMAIN old \cup DOMAIN new |-> IF k \in DOMAIN new THEN new[k] ELSE old[k]]

\* Mutant of WithHeader: the lists are cut to the lengths given.
WithHeaderAndLengths(t, version, num_inputs, num_outputs, lock_time) ==
    [t EXCEPT !.version = version, !.lock_time = lock_time,
              !.inputs = SubSeq(@, 1, IF num_inputs < Len(@) THEN num_inputs ELSE Len(@)),
              !.outputs = SubSeq(@, 1, IF num_outputs < Len(@) THEN num_outputs ELSE Len(@))]

\* self.version, _, _, self.lock_time = version, num_inputs, num_outputs, lock_time
WithHeader(t, version, num_inputs, num_outputs, lock_time) ==
    [t EXCEPT !.version = version, !.lock_time = lock_time]

\* (self.version, len(self.inputs), len(self.outputs), self.lock_time)
HeaderOf(t) == <<t.version, Len(t.inputs), Len(t.outputs), t.lock_time>>

TxIds == {"00", "11"}
Sequences == {123}
HeaderOutputValues == {SmallInt(1000)}
HeaderVersions == {2}
HeaderCounts == {0, 5}
HeaderLockTimes == {999, 600000}
MetadataUpdates == {[fee |-> 100], [fee |-> 1000, memo |-> "test"]}

TxCallGuard == pc = "tx" /\ Len(stdout) < MaxStdout

AddInput(tx_id, vout_index, script_sig, sequence) ==
    /\ TxCallGuard
    /\ Len(tx.inputs) < MaxInputs
    /\ tx' = WithInput(tx, tx_id, vout_index, script_sig, sequence)
    /\ stdout' = Append(stdout, Line("Added input", <<tx_id, vout_index>>))
    /\ calls' = [calls EXCEPT !.add_input = @ + 1]
    /\ ret' = Called("add_input", <<tx_id, vout_index, script_sig, sequence>>, None)
    /\ UNCHANGED <<codecVars, pc, frame, utxos, gen, headers, threads, heap>>

AddOutput(value_satoshi, script_pubkey) ==
    /\ TxCallGuard
    /\ Len(tx.outputs) < MaxOutputs
    /\ tx' = WithOutput(tx, value_satoshi, script_pubkey)
    /\ stdout' = Append(stdout, Line("Added output", <<value_satoshi>>))
    /\ calls' = [calls EXCEPT !.add_output = @ + 1]
    /\ ret' = Called("add_output", <<value_satoshi, script_pubkey>>, None)
    /\ UNCHANGED <<codecVars, pc, frame, utxos, gen, headers, threads, heap>>

UpdateMetadata(new_data) ==
    /\ TxCallGuard
    /\ tx' = [tx EXCEPT !.metadata = DictUpdate(@, new_data)]
    /\ stdout' = Append(stdout, Line("Updated metadata", <<tx'.metadata>>))
    /\ ret' = Called("update_metadata", <<new_data>>, None)
    /\ UNCHANGED <<codecVars, pc, frame, calls, utxos, gen, headers, threads, heap>>

GetTransactionHeader ==
    /\ pc = "tx"
    /\ ret' = Called("get_transaction_header", <<>>, HeaderOf(tx))
    /\ UNCHANGED <<codecVars, pc, tx, frame, calls, utxos, stdout, gen, headers, threads, heap>>

SetTransactionHeader(version, num_inputs, num_outputs, lock_time) ==
    /\ TxCallGuard
    /\ tx' = WithHeader(tx, version, num_inputs, num_outputs, lock_time)
    /\ stdout' = Append(stdout, Line("Set header via multiple assignment",
                                     <<tx'.version, tx'.lock_time>>))
    /\ ret' = Called("set_transaction_header",
                     <<version, num_inputs, num_outputs, lock_time>>, None)
    /\ UNCHANGED <<codecVars, pc, frame, calls, utxos, gen, headers, threads, heap>>

InitTx ==
    /\ value = PyOther("NoneType")
    /\ encoded = Unset
    /\ data = <<>>
    /\ decoded = Unset
    /\ StreamIdle
    /\ ObjectsIdle
    /\ pc = "tx"

NextTx ==
    \/ \E i \in TxIds, q \in Sequences : AddInput(i, Len(tx.inputs), "script_sig", q)
    \/ \E v \in HeaderOutputValues : AddOutput(v, "script_pubkey")
    \/ \E m \in MetadataUpdates : UpdateMetadata(m)
    \/ GetTransactionHeader
    \/ \E v \in HeaderVersions, ni \in HeaderCounts, no \in HeaderCounts, lt \in HeaderLockTimes :
           SetTransactionHeader(v, ni, no, lt)

SpecTx == InitTx /\ [][NextTx]_vars

(***************************************************************************)
(* C18  set_transaction_header(version, num_inputs, num_outputs,           *)
(* lock_time) changes only version and lock_time and leaves inputs,        *)
(* outputs and metadata as they were (num_inputs and num_outputs are       *)
(* ignored); in every reachable state get_transaction_header returns       *)
(* (version, number of add_input calls so far, number of add_output calls  *)
(* so far, lock_time).                                                     *)
(***************************************************************************)
SetHeaderStep == ret'.op = "set_transaction_header" /\ stdout' # stdout

C18_HeaderInState ==
    /\ HeaderOf(tx) = <<tx.version, calls.add_input, calls.add_output, tx.lock_time>>
    /\ ret.op = "get_transaction_header" => ret.val = HeaderOf(tx)

C18_HeaderFrame ==
    /\ [][SetHeaderStep =>
            /\ tx'.version = ret'.args[1]
            /\ tx'.lock_time = ret'.args[4]
            /\ tx'.inputs = tx.inputs
            /\ tx'.outputs = tx.outputs
            /\ tx'.metadata = tx.metadata
            /\ calls' = calls]_vars
    /\ []C18_HeaderInState

\* The header was set with counts that differ from the lists, and then read.
C18_Witness ==
    /\ ret.op = "get_transaction_header"
    /\ ret.val = <<2, 1, 1, 999>>
    /\ stdout[Len(stdout)].text = "Set header via multiple assignment"
    /\ DOMAIN tx.metadata # {}

(***************************************************************************)
(* TransactionData.summarize_outputs: the call, one pass of the while      *)
(* loop, and the return.                                                   *)
(***************************************************************************)
BreakThreshold == 1000000000

\* Mutant of SummarizeBody: the break is taken before the output is counted.
SummarizeBodyBreakBeforeCount(f, outputs) ==
    LET v == outputs[f.index + 1][1]
    IN  IF v.type # "int" \/ v.n < 0
        THEN [frame |-> [f EXCEPT !.index = @ + 1], brk |-> FALSE,
              lines |-> <<Line("Skipping invalid output", <<f.index, v>>)>>]
        ELSE IF v.n < f.min_value
        THEN [frame |-> [f EXCEPT !.index = @ + 1], brk |-> FALSE,
              lines |-> <<Line("Skipping output", <<f.index, v, f.min_value>>)>>]
        ELSE IF f.total_satoshi + v.n > BreakThreshold
        THEN [frame |-> [f EXCEPT !.total_satoshi = @ + v.n], brk |-> TRUE,
              lines |-> <<Line("Total satoshis exceeded 1 Billion. Breaking summarization.", <<>>)>>]
        ELSE [frame |-> [f EXCEPT !.total_satoshi = @ + v.n,
                                  !.valid_outputs_count = @ + 1,
                                  !.index = @ + 1],
              brk |-> FALSE,
              lines |-> <<Line("Including output", <<f.index, v>>)>>]

\* The body of the while loop at index f.index: the frame it leaves, the
\* lines it prints, and whether it left by break.
SummarizeBody(f, outputs) ==
    LET v == outputs[f.index + 1][1]
    IN  IF v.type # "int" \/ v.n < 0
        THEN [frame |-> [f EXCEPT !.index = @ + 1], brk |-> FALSE,
              lines |-> <<Line("Skipping invalid output", <<f.index, v>>)>>]
        ELSE IF v.n < f.min_value
        THEN [frame |-> [f EXCEPT !.index = @ + 1], brk |-> FALSE,
              lines |-> <<Line("Skipping output", <<f.index, v, f.min_value>>)>>]
        ELSE LET total == f.total_satoshi + v.n
                 included == Line("Including output", <<f.index, v>>)
             IN  IF total > BreakThreshold
                 THEN [frame |-> [f EXCEPT !.total_satoshi = total,
                                           !.valid_outputs_count = @ + 1],
                       brk |-> TRUE,
                       lines |-> <<included,
                                   Line("Total satoshis exceeded 1 Billion. Breaking summarization.", <<>>)>>]
                 ELSE [frame |-> [f EXCEPT !.total_satoshi = total,
                                           !.valid_outputs_count = @ + 1,
                                           !.index = @ + 1],
                       brk |-> FALSE,
                       lines |-> <<included>>]

OutputValues ==
    {SmallInt(100000000), SmallInt(950000000), SmallInt(50000), SmallInt(500),
     SmallInt(-100), NotAnInt("str")}

MinValues == {-5, 0, 1000}

SummarizeCall(min_value) ==
    /\ TxCallGuard
    /\ frame' = [min_value |-> min_value, total_satoshi |-> 0,
                 valid_outputs_count |-> 0, index |-> 0]
    /\ stdout' = Append(stdout, Line("--- Summarizing Outputs (using while, continue, break) ---", <<>>))
    /\ ret' = Called("summarize_outputs", <<min_value>>, None)
    /\ pc' = "summarize_loop"
    /\ UNCHANGED <<codecVars, tx, calls, utxos, gen, headers, threads, heap>>

SummarizeIter ==
    /\ pc = "summarize_loop"
    /\ frame.index < Len(tx.outputs)
    /\ LET b == SummarizeBody(frame, tx.outputs)
       IN  /\ frame' = b.frame
           /\ stdout' = stdout \o b.lines
           /\ pc' = IF b.brk THEN "summarize_break" ELSE "summarize_loop"
    /\ UNCHANGED <<codecVars, tx, ret, calls, utxos, gen, headers, threads, heap>>

SummarizeReturn ==
    /\ \/ pc = "summarize_break"
       \/ pc = "summarize_loop" /\ ~(frame.index < Len(tx.outputs))
    /\ ret' = Called("summarize_outputs", <<frame.min_value>>,
                     <<frame.total_satoshi, frame.valid_outputs_count>>)
    /\ pc' = "tx"
    /\ UNCHANGED <<codecVars, tx, frame, calls, utxos, stdout, gen, headers, threads, heap>>

NextSummarize ==
    \/ \E v \in OutputValues : AddOutput(v, "script_pubkey")
    \/ \E m \in MinValues : SummarizeCall(m)
    \/ SummarizeIter
    \/ SummarizeReturn

\* A call that is running keeps running: the interpreter does not abandon it.
SpecSummarize ==
    /\ InitTx
    /\ [][NextSummarize]_vars
    /\ WF_vars(SummarizeIter)
    /\ WF_vars(SummarizeReturn)

\* An output enters the summary.
Included(o, min_value) == o[1].type = "int" /\ o[1].n >= 0 /\ o[1].n >= min_value

\* The scan in insertion order from running totals (total, count): it stops
\* right after the included output that takes the total above the threshold.
RECURSIVE ScanFrom(_, _, _, _)
ScanFrom(outs, min_value, total, count) ==
    IF Len(outs) = 0 THEN <<total, count>>
    ELSE IF ~Included(Head(outs), min_value) THEN ScanFrom(Tail(outs), min_value, total, count)
    ELSE IF total + Head(outs)[1].n > BreakThreshold THEN <<total + Head(outs)[1].n, count + 1>>
    ELSE ScanFrom(Tail(outs), min_value, total + Head(outs)[1].n, count + 1)

SummarizeRunning == pc \in {"summarize_loop", "summarize_break"}

C12_Result ==
    (pc = "tx" /\ ret.op = "summarize_outputs") =>
        /\ ret.val = ScanFrom(tx.outputs, ret.args[1], 0, 0)
        /\ frame.index <= Len(tx.outputs)
        /\ ret.val[1] <= BreakThreshold => frame.index = Len(tx.outputs)
        /\ ret.val[1] > BreakThreshold =>
            /\ frame.index < Len(tx.outputs)
            /\ Included(tx.outputs[frame.index + 1], ret.args[1])

(***************************************************************************)
(* C12  summarize_outputs(min_value) scans outputs in insertion order and  *)
(* returns (total, count), an output being included iff its value is a     *)
(* non-negative integer and >= min_value; the scan stops right after the   *)
(* first included output that takes the total above 1,000,000,000 (that    *)
(* output is counted, later ones are not) and otherwise covers every       *)
(* output; the loop terminates for every finite output list.               *)
(***************************************************************************)
C12_Summarize ==
    /\ []C12_Result
    /\ SummarizeRunning ~> (pc = "tx" /\ ret.op = "summarize_outputs" /\ Len(ret.val) = 2)

\* 1 BTC, then 9.5 BTC which breaks the scan, then an output never reached.
C12_Witness ==
    /\ pc = "tx"
    /\ ret.op = "summarize_outputs"
    /\ Len(tx.outputs) = 3
    /\ tx.outputs[3][1] = SmallInt(50000)
    /\ ret.val = <<1050000000, 2>>
    /\ frame.index = 1

(***************************************************************************)
(* UTXOSet: a Python set of (tx_id, vout_index, amount) tuples.            *)
(***************************************************************************)
utxo1 == <<"tx1_id", 0, 10000>>
utxo2 == <<"tx2_id", 1, 20000>>
utxo3 == <<"tx3_id", 0, 5000>>
\* The outpoint of utxo3 with another amount: a different tuple.
utxo3Negative == <<"tx3_id", 0, -5000>>

UtxoTuples == {utxo1, utxo2, utxo3, utxo3Negative}

TargetAmounts == {0, 25000, 100000}

\* set.add
SetAdd(s, t) == s \cup {t}

\* Mutant of RemoveFromSet: the tuple is matched on its outpoint alone.
RemoveByOutpoint(s, t) ==
    LET same == {u \in s : u[1] = t[1] /\ u[2] = t[2]}
    IN  IF same # {} THEN [utxos |-> s \ same, val |-> TRUE]
        ELSE [utxos |-> s, val |-> FALSE]

\* if utxo_tuple in self.utxos: self.utxos.remove(utxo_tuple); return True
\* return False
RemoveFromSet(s, t) ==
    IF t \in s THEN [utxos |-> s \ {t}, val |-> TRUE]
    ELSE [utxos |-> s, val |-> FALSE]

\* The orders in which a for loop may visit the members of a set.
IterationOrders(s) ==
    {order \in [1..Cardinality(s) -> s] : {order[i] : i \in DOMAIN order} = s}

\* The text of the line printed when the running amount reaches the target.
FoundText == "Found sufficient UTXOs for target amount"

\* Mutant of FindScan: the selection is returned even when it falls short.
RECURSIVE FindScanKeepsPartial(_, _, _, _)
FindScanKeepsPartial(order, target_amount, selected_utxos, current_amount) ==
    IF Len(order) = 0
    THEN [val |-> selected_utxos, lines |-> <<>>]
    ELSE LET utxo == Head(order)
             sel == SetAdd(selected_utxos, utxo)
             cur == current_amount + utxo[3]
         IN  IF cur >= target_amount
             THEN [val |-> sel, lines |-> <<Line(FoundText, <<target_amount>>)>>]
             ELSE FindScanKeepsPartial(Tail(order), target_amount, sel, cur)

\* The for loop of find_sufficient_utxos over the members still to visit,
\* and the code after it: the set returned and the lines printed.
RECURSIVE FindScan(_, _, _, _)
FindScan(order, target_amount, selected_utxos, current_amount) ==
    IF Len(order) = 0
    THEN IF current_amount < target_amount
         THEN [val |-> {}, lines |-> <<>>]
         ELSE [val |-> selected_utxos, lines |-> <<>>]
    ELSE LET utxo == Head(order)
             sel == SetAdd(selected_utxos, utxo)
             cur == current_amount + utxo[3]
         IN  IF cur >= target_amount
             THEN [val |-> sel, lines |-> <<Line(FoundText, <<target_amount>>)>>]
             ELSE FindScan(Tail(order), target_amount, sel, cur)

UtxoCallGuard == pc = "utxo" /\ Len(stdout) < MaxStdout

AddUtxo(tx_id, vout_index, amount) ==
    /\ UtxoCallGuard
    /\ utxos' = SetAdd(utxos, <<tx_id, vout_index, amount>>)
    /\ stdout' = Append(stdout, Line("Added UTXO", <<tx_id, vout_index, amount>>))
    /\ ret' = Called("add_utxo", <<tx_id, vout_index, amount>>, None)
    /\ UNCHANGED <<codecVars, pc, tx, frame, calls, gen, headers, threads, heap>>

RemoveUtxo(tx_id, vout_index, amount) ==
    /\ UtxoCallGuard
    /\ LET r == RemoveFromSet(utxos, <<tx_id, vout_index, amount>>)
       IN  /\ utxos' = r.utxos
           /\ ret' = Called("remove_utxo", <<tx_id, vout_index, amount>>, r.val)
    /\ UNCHANGED <<codecVars, pc, tx, frame, calls, stdout, gen, headers, threads, heap>>

GetTotalUtxoCount ==
    /\ UtxoCallGuard
    /\ ret' = Called("get_total_utxo_count", <<>>, Cardinality(utxos))
    /\ UNCHANGED <<codecVars, pc, tx, frame, calls, utxos, stdout, gen, headers, threads, heap>>

FindSufficientUtxos(target_amount) ==
    /\ UtxoCallGuard
    /\ \E order \in IterationOrders(utxos) :
         LET r == FindScan(order, target_amount, {}, 0)
         IN  /\ ret' = Called("find_sufficient_utxos", <<target_amount>>, r.val)
             /\ stdout' = stdout \o r.lines
    /\ UNCHANGED <<codecVars, pc, tx, frame, calls, utxos, gen, headers, threads, heap>>

InitUtxo ==
    /\ value = Unset /\ encoded = Unset /\ data = <<>> /\ decoded = Unset
    /\ StreamIdle
    /\ ObjectsIdle
    /\ pc = "utxo"

NextUtxo ==
    \/ \E t \in UtxoTuples : AddUtxo(t[1], t[2], t[3])
    \/ \E t \in UtxoTuples : RemoveUtxo(t[1], t[2], t[3])
    \/ GetTotalUtxoCount
    \/ \E target \in TargetAmounts : FindSufficientUtxos(target)

SpecUtxo == InitUtxo /\ [][NextUtxo]_vars

\* Some printed line contains the text.
Printed(text) == \E i \in DOMAIN stdout : stdout[i].text = text

\* The sum of the amounts of a set of tuples.
RECURSIVE SumAmounts(_)
SumAmounts(s) ==
    IF s = {} THEN 0
    ELSE LET u == CHOOSE x \in s : TRUE IN u[3] + SumAmounts(s \ {u})

AllNonNegative(s) == \A u \in s : u[3] >= 0

C13_AddStep ==
    ret'.op = "add_utxo" =>
        /\ utxos' = utxos \cup {ret'.args}
        /\ ret'.args \in utxos =>
             utxos' = utxos /\ Cardinality(utxos') = Cardinality(utxos)

C13_RemoveStep ==
    ret'.op = "remove_utxo" =>
        /\ ret'.val = (ret'.args \in utxos)
        /\ utxos' = utxos \ {ret'.args}
        /\ ret'.args \notin utxos => utxos' = utxos

C13_Count ==
    ret.op = "get_total_utxo_count" => ret.val = Cardinality(utxos)

(***************************************************************************)
(* C13  utxos is the mathematical set built by the same insertions and     *)
(* deletions of triples: add_utxo is set union with the triple (a triple   *)
(* already present leaves the set and the count unchanged), remove_utxo    *)
(* returns True and deletes the triple iff it was present and returns      *)
(* False leaving the set unchanged otherwise, and get_total_utxo_count is  *)
(* the cardinality of the set.                                             *)
(***************************************************************************)
C13_SetSemantics ==
    /\ [][C13_AddStep /\ C13_RemoveStep]_vars
    /\ []C13_Count

\* utxo1 was added twice, utxo2 once, and utxo1 has just been removed.
C13_Witness ==
    /\ Len(stdout) = 3
    /\ stdout[1] = stdout[2]
    /\ stdout[1].args = utxo1
    /\ ret = Called("remove_utxo", utxo1, TRUE)
    /\ utxos = {utxo2}

(***************************************************************************)
(* C14  remove_utxo reports its outcome on standard output: "Removed       *)
(* UTXO" after a successful removal, "UTXO not found" after an attempt to  *)
(* remove a triple that is not in the set.                                 *)
(***************************************************************************)
C14_RemoveReported ==
    ret.op = "remove_utxo" =>
        Printed(IF ret.val THEN "Removed UTXO" ELSE "UTXO not found")

(***************************************************************************)
(* C15  find_sufficient_utxos(target) on a set of non-negative amounts:    *)
(* when the set is non-empty and its balance is >= target the result is a  *)
(* subset of utxos whose amounts sum to >= target and <= the balance; when *)
(* the balance is < target the result is the empty set; utxos is left      *)
(* unchanged.                                                              *)
(***************************************************************************)
C15_FindStep ==
    ret'.op = "find_sufficient_utxos" =>
        /\ utxos' = utxos
        /\ AllNonNegative(utxos) =>
            LET target == ret'.args[1]
                balance == SumAmounts(utxos)
            IN  /\ (utxos # {} /\ balance >= target) =>
                     /\ ret'.val \subseteq utxos
                     /\ SumAmounts(ret'.val) >= target
                     /\ SumAmounts(ret'.val) <= balance
                /\ balance < target => ret'.val = {}

C15_FindSufficient == [][C15_FindStep]_vars

\* The test's set and target: 25000 is reached by a proper selection.
C15_Witness ==
    /\ utxos = {utxo1, utxo2, utxo3}
    /\ ret.op = "find_sufficient_utxos"
    /\ ret.args = <<25000>>
    /\ ret.val \in {{utxo1, utxo2}, {utxo2, utxo3}, {utxo1, utxo2, utxo3}}
    /\ ret.val # utxos

(***************************************************************************)
(* C16  find_sufficient_utxos reports both outcomes on standard output:    *)
(* "Found sufficient UTXOs" when a sufficient subset is found, and "Could  *)
(* not find sufficient UTXOs" when the target cannot be reached, before    *)
(* the empty set is returned.                                              *)
(***************************************************************************)
C16_FindReported ==
    (ret.op = "find_sufficient_utxos" /\ AllNonNegative(utxos) /\ utxos # {}) =>
        IF SumAmounts(utxos) >= ret.args[1]
        THEN Printed(FoundText)
        ELSE Printed("Could not find sufficient UTXOs")

(***************************************************************************)
(* generate_block_headers: a generator object and its consumer.  The       *)
(* generator runs only inside next(); between two calls it is suspended at *)
(* the yield.                                                              *)
(***************************************************************************)
MaxAttempts == 201

ProgressEvery == 100

PrevBlockHash == "0000000000000000000000000000000000000000000000000000000000000000"
MerkleRoot == "1111111111111111111111111111111111111111111111111111111111111111"
Timestamp == 1678886400
Bits == 486604799

StartNonces == {0, 10}

MaxAttemptValues == {-1, 0, 3, 5, ProgressEvery, ProgressEvery + 1, MaxAttempts}

StopIteration == [raised |-> "StopIteration"]

GeneratorHeaderText == "--- Generating Block Headers (using generator) ---"
AttemptText == "Attempt"
ProgressText == "attempts made"

\* header_data of the current pass
HeaderData(nonce) ==
    [version |-> 1, prev_block_hash |-> PrevBlockHash, merkle_root |-> MerkleRoot,
     timestamp |-> Timestamp, bits |-> Bits, nonce |-> nonce]

\* Mutant of AfterYield: the progress test runs before the counters move.
AfterYieldProgressFirst(g) ==
    [g |-> [g EXCEPT !.nonce = @ + 1, !.attempts = @ + 1],
     lines |-> IF g.attempts % ProgressEvery = 0 /\ g.attempts > 0
               THEN <<Line(ProgressText, <<g.attempts>>)>>
               ELSE <<>>]

\* The code between the yield and the loop test: nonce += 1, attempts += 1
\* and the conditional progress line.
AfterYield(g) ==
    LET attempts == g.attempts + 1
    IN  [g |-> [g EXCEPT !.nonce = @ + 1, !.attempts = attempts],
         lines |-> IF attempts % ProgressEvery = 0 /\ attempts > 0
                   THEN <<Line(ProgressText, <<attempts>>)>>
                   ELSE <<>>]

\* The loop test and the pass up to the yield, or the end of the function.
\* The hash prefix of the attempt line is not modelled.
ToYield(g) ==
    IF g.attempts < g.max_attempts
    THEN [g |-> [g EXCEPT !.state = "suspended"],
          lines |-> <<Line(AttemptText, <<g.attempts + 1, g.nonce>>)>>,
          val |-> HeaderData(g.nonce)]
    ELSE [g |-> [g EXCEPT !.state = "exhausted"],
          lines |-> <<>>,
          val |-> StopIteration]

\* Calling the generator function runs none of its body.
GenerateBlockHeaders(start_nonce, max_attempts) ==
    /\ pc = "gen"
    /\ gen.state = "none"
    /\ gen' = [state |-> "created", start_nonce |-> start_nonce,
               max_attempts |-> max_attempts, nonce |-> 0, attempts |-> 0]
    /\ ret' = Called("generate_block_headers", <<start_nonce, max_attempts>>, None)
    /\ UNCHANGED <<codecVars, pc, tx, frame, calls, utxos, stdout, headers, threads, heap>>

\* next(gen): from the start of the body, or from the yield, to the next yield
\* or to the end; a finished generator raises StopIteration again.
GenNext ==
    /\ pc = "gen"
    /\ gen.state \in {"created", "suspended", "exhausted", "closed"}
    /\ LET before ==
               IF gen.state = "created"
               THEN [g |-> [gen EXCEPT !.nonce = gen.start_nonce, !.attempts = 0],
                     lines |-> <<Line(GeneratorHeaderText, <<>>)>>]
               ELSE IF gen.state = "suspended"
               THEN AfterYield(gen)
               ELSE [g |-> gen, lines |-> <<>>]
           after ==
               IF gen.state \in {"exhausted", "closed"}
               THEN [g |-> gen, lines |-> <<>>, val |-> StopIteration]
               ELSE ToYield(before.g)
       IN  /\ gen' = after.g
           /\ stdout' = stdout \o before.lines \o after.lines
           /\ ret' = Called("next", <<>>, after.val)
           /\ headers' = IF after.val = StopIteration THEN headers
                         ELSE Append(headers, after.val)
    /\ UNCHANGED <<codecVars, pc, tx, frame, calls, utxos, threads, heap>>

\* The consumer leaves its for loop: the generator is closed where it stands
\* and runs no further code.
GenClose ==
    /\ pc = "gen"
    /\ gen.state \in {"created", "suspended"}
    /\ gen' = [gen EXCEPT !.state = "closed"]
    /\ ret' = Called("close", <<>>, None)
    /\ UNCHANGED <<codecVars, pc, tx, frame, calls, utxos, stdout, headers, threads, heap>>

InitGen ==
    /\ value = Unset /\ encoded = Unset /\ data = <<>> /\ decoded = Unset
    /\ StreamIdle
    /\ ObjectsIdle
    /\ pc = "gen"

NextGen ==
    \/ \E n \in StartNonces, m \in MaxAttemptValues : GenerateBlockHeaders(n, m)
    \/ GenNext
    \/ GenClose

SpecGen == InitGen /\ [][NextGen]_vars

\* max(max_attempts, 0)
HeadersDue == IF gen.max_attempts > 0 THEN gen.max_attempts ELSE 0

\* The i-th header received (counted from 0) is the arguments with nonce
\* start_nonce + i.
HeadersInOrder ==
    \A i \in DOMAIN headers :
        headers[i] = [version |-> 1, prev_block_hash |-> PrevBlockHash,
                      merkle_root |-> MerkleRoot, timestamp |-> Timestamp,
                      bits |-> Bits, nonce |-> gen.start_nonce + (i - 1)]

IsAttemptLine(l, n) == l.text = AttemptText /\ l.args[1] = n

IsProgressLine(l, n) == l.text = ProgressText /\ l.args[1] = n

\* A progress line stands right after the line of an attempt whose number is
\* a positive multiple of 100, and nowhere else; such an attempt line is
\* followed by its progress line as soon as anything follows it.
ProgressAfterEachHundredth ==
    /\ \A i \in DOMAIN stdout :
         stdout[i].text = ProgressText =>
            /\ stdout[i].args[1] > 0
            /\ stdout[i].args[1] % 100 = 0
            /\ i > 1
            /\ IsAttemptLine(stdout[i - 1], stdout[i].args[1])
    /\ \A i \in DOMAIN stdout :
         (stdout[i].text = AttemptText /\ stdout[i].args[1] % 100 = 0 /\ i < Len(stdout)) =>
            IsProgressLine(stdout[i + 1], stdout[i].args[1])
    /\ gen.state = "exhausted" =>
         \A k \in 1..HeadersDue :
            k % 100 = 0 => \E i \in DOMAIN stdout : IsProgressLine(stdout[i], k)

(***************************************************************************)
(* C17  generate_block_headers(start_nonce, max_attempts) yields exactly   *)
(* max(max_attempts, 0) headers when fully consumed, the i-th (0-based)    *)
(* with nonce start_nonce + i and the other fields as given, and is then   *)
(* exhausted, next raising StopIteration; a consumer that stops after      *)
(* k < max_attempts items has received nonces start_nonce ..               *)
(* start_nonce + k - 1; a progress message is emitted exactly after each   *)
(* 100th attempt.                                                          *)
(***************************************************************************)
C17_Generator ==
    /\ HeadersInOrder
    /\ Len(headers) <= HeadersDue
    /\ gen.state = "exhausted" =>
         /\ Len(headers) = HeadersDue
         /\ ret = Called("next", <<>>, StopIteration)
    /\ (gen.state = "suspended" /\ ret.op = "next") =>
         ret.val = headers[Len(headers)]
    /\ ProgressAfterEachHundredth

\* The test's run: 101 attempts from nonce 0, consumed to the end.
C17_Witness ==
    /\ gen.state = "exhausted"
    /\ gen.max_attempts = 101
    /\ Len(headers) = 101
    /\ headers[101].nonce = 100
    /\ \E i \in DOMAIN stdout :
         /\ IsProgressLine(stdout[i], 100)
         /\ i < Len(stdout)
         /\ IsAttemptLine(stdout[i + 1], 101)

(***************************************************************************)
(* Concurrent callers of encode and decode.  The arguments are objects on  *)
(* a heap all threads share; a call is split at the points where it reads  *)
(* its argument, and the threads' steps interleave freely.  The encoder    *)
(* and decoder classes define no attribute, so which object a call goes    *)
(* through is not part of the state.                                       *)
(***************************************************************************)
NThreads == 2

SharedValues == <<PyInt(FALSE, <<252>>), PyInt(FALSE, <<0, 1>>), PyInt(TRUE, <<1>>)>>

SharedBuffers == <<<<>>, <<252>>, <<253, 1, 0, 7>>, <<254, 1>>>>

SharedHeap == SharedValues \o SharedBuffers

EncodeRefs == 1..Len(SharedValues)

DecodeRefs == (Len(SharedValues) + 1)..Len(SharedHeap)

IdleThread == [op |-> "none", ref |-> 0, pc |-> "idle", first_byte |-> 0, result |-> Unset]

\* Mutant of HeapAfterDecode: the bytes consumed are deleted from the buffer.
HeapAfterDecodeConsumes(h, ref, result) ==
    IF result.ok
    THEN [h EXCEPT ![ref] = SubSeq(@, result.consumed + 1, Len(@))]
    ELSE h

\* decode only reads data (data[0], len(data), data[1:n]): the heap after the
\* call is the heap before it.
HeapAfterDecode(h, ref, result) == h

\* A thread calls encode(value) or decode(data) on a shared object.
ThreadCall(t, op, ref) ==
    /\ pc = "threads"
    /\ threads[t].pc \in {"idle", "done"}
    /\ threads' = [threads EXCEPT ![t] =
                      [op |-> op, ref |-> ref, pc |-> "entered",
                       first_byte |-> 0, result |-> Unset]]
    /\ UNCHANGED <<codecVars, pc, tx, frame, ret, calls, utxos, stdout, gen, headers, heap>>

\* encode runs: value is read, validated, converted.
ThreadEncode(t) ==
    /\ pc = "threads"
    /\ threads[t].pc = "entered"
    /\ threads[t].op = "encode"
    /\ threads' = [threads EXCEPT ![t].result = Encode(heap[threads[t].ref]),
                                  ![t].pc = "done"]
    /\ UNCHANGED <<codecVars, pc, tx, frame, ret, calls, utxos, stdout, gen, headers, heap>>

\* decode up to first_byte = data[0], or the raise on empty data.
ThreadDecodeFirstByte(t) ==
    /\ pc = "threads"
    /\ threads[t].pc = "entered"
    /\ threads[t].op = "decode"
    /\ LET bs == heap[threads[t].ref]
       IN  threads' = IF Len(bs) = 0
                      THEN [threads EXCEPT ![t].result = Decode(bs), ![t].pc = "done"]
                      ELSE [threads EXCEPT ![t].first_byte = bs[1], ![t].pc = "branch"]
    /\ UNCHANGED <<codecVars, pc, tx, frame, ret, calls, utxos, stdout, gen, headers, heap>>

\* decode from the branch on first_byte: len(data) and the slice are read
\* from the buffer as it is now.
ThreadDecodeRest(t) ==
    /\ pc = "threads"
    /\ threads[t].pc = "branch"
    /\ LET now == heap[threads[t].ref]
           rest == IF Len(now) > 0 THEN Tail(now) ELSE <<>>
           result == Decode(<<threads[t].first_byte>> \o rest)
       IN  /\ threads' = [threads EXCEPT ![t].result = result, ![t].pc = "done"]
           /\ heap' = HeapAfterDecode(heap, threads[t].ref, result)
    /\ UNCHANGED <<codecVars, pc, tx, frame, ret, calls, utxos, stdout, gen, headers>>

InitThreads ==
    /\ value = Unset /\ encoded = Unset /\ data = <<>> /\ decoded = Unset
    /\ StreamIdle
    /\ tx = NewTransaction /\ frame = NoFrame /\ ret = NoCall
    /\ calls = [add_input |-> 0, add_output |-> 0]
    /\ utxos = {} /\ stdout = <<>> /\ gen = NoGenerator /\ headers = <<>>
    /\ threads = [t \in 1..NThreads |-> IdleThread]
    /\ heap = SharedHeap
    /\ pc = "threads"

NextThreads ==
    \E t \in 1..NThreads :
        \/ \E ref \in EncodeRefs : ThreadCall(t, "encode", ref)
        \/ \E ref \in DecodeRefs : ThreadCall(t, "decode", ref)
        \/ ThreadEncode(t)
        \/ ThreadDecodeFirstByte(t)
        \/ ThreadDecodeRest(t)

SpecThreads == InitThreads /\ [][NextThreads]_vars

\* What the call returns or raises when it runs alone on the object.
AloneResult(op, object) == IF op = "encode" THEN Encode(object) ELSE Decode(object)

(***************************************************************************)
(* C11  encode and decode keep no state and do not mutate their argument:  *)
(* under every interleaving of concurrent calls each call returns what it  *)
(* returns when run alone, and the buffer given to decode is unchanged     *)
(* afterwards.                                                             *)
(***************************************************************************)
C11_Reentrant ==
    /\ heap = SharedHeap
    /\ \A t \in 1..NThreads :
         threads[t].pc = "done" =>
            threads[t].result = AloneResult(threads[t].op, SharedHeap[threads[t].ref])

\* One decode of a buffer has returned three bytes consumed while another
\* decode of the same buffer stands between its two reads.
C11_Witness ==
    \E t, u \in 1..NThreads :
        /\ t # u
        /\ threads[t].op = "decode"
        /\ threads[t].pc = "done"
        /\ threads[t].result.ok
        /\ threads[t].result.consumed = 3
        /\ threads[u].op = "decode"
        /\ threads[u].ref = threads[t].ref
        /\ threads[u].pc = "branch"

====
